---- MODULE Spec2Model ----
(***************************************************************************)
(* The HTTP request router of src/index.ts: the Express application with   *)
(* its middleware chain (cors, express.json, express.urlencoded, request   *)
(* logger), the routes registered by setupSwagger and by index.ts, the     *)
(* 404 handler and the global error handler.                               *)
(*                                                                         *)
(* A request is handled in event-loop turns.  One turn runs every          *)
(* synchronous step up to the next suspension: the read of the request     *)
(* body by a body parser, or an await on the database client in the        *)
(* GET /db-test handler.  Each turn is one action.                         *)
(***************************************************************************)
EXTENDS Integers, Sequences, FiniteSets, TLC

VARIABLES
    NODE_ENV,   \* process.env.NODE_ENV, fixed when the process starts
    db,         \* the state of the database behind the prisma client
    reqs,       \* the connections of the server, each idle or holding a request
    prev,       \* the exchange before the held one, when that repeats it
    dbStable    \* the database has not changed since the oldest held request arrived

vars == <<NODE_ENV, db, reqs, prev, dbStable>>

(***************************************************************************)
(* Bounds of the model.                                                    *)
(***************************************************************************)
\* The largest number of rows a count query reports.
MaxCount == 1
\* The number of connections the concurrent specification holds open.
MaxInFlight == 2

(***************************************************************************)
(* Values.                                                                 *)
(***************************************************************************)
\* JavaScript's undefined: an unset environment variable, a missing property.
Undefined == "<undefined>"
\* The body of a response that carries none (res.end() without a chunk).
NoBody == [f \in {} |-> Undefined]
\* A binding that holds no value yet; a value v is held as <<v>>.
None == << >>

EnvValues == {Undefined, "", "production"}

Counts == 0..MaxCount

\* What a database call may throw: an Error with an empty or a non-empty
\* message, or a value that is no Error (a thrown string), whose .message
\* reads undefined.
Thrown ==
    { [isError |-> TRUE, message |-> ""],
      [isError |-> TRUE, message |-> "Can't reach database server"],
      [isError |-> FALSE, message |-> Undefined] }

\* Readings of new Date() / process.uptime().
Times == {1001, 1002}

\* Readings of process.memoryUsage(), in bytes.
MemorySamples ==
    { [rss |-> 52428800, heapUsed |-> 10485760],
      [rss |-> 53000000, heapUsed |-> 11100000] }

\* The database: reachable with its two row counts, or failing at one of
\* the three calls of the probe with the value that call throws.
NoError == [isError |-> FALSE, message |-> Undefined]

DbStates ==
    [failAt : {"none"}, thrown : {NoError}, users : Counts, posts : Counts]
    \cup
    [failAt : {"connect", "userCount", "postCount"}, thrown : Thrown,
     users : {0}, posts : {0}]

(***************************************************************************)
(* Requests.  A path is its sequence of segments: "/" is << >>, "/info" is *)
(* <<"info">>, and a trailing slash is a last, empty segment.              *)
(***************************************************************************)
Methods == {"GET", "HEAD", "POST", "OPTIONS"}

Paths ==
    { << >>, <<"info">>, <<"db-test">>, <<"api-docs">>, <<"api-docs.json">>,
      <<"api-docs", "swagger-ui.css">>, <<"nope">>, <<"INFO">>,
      <<"db-test", "">> }

\* none: no body.  json / urlencoded: a body of that content type the parser
\* accepts.  badJson / badUrlencoded: one the parser rejects.  A request
\* carries no cache validator (If-None-Match, If-Modified-Since).
Bodies == {"none", "json", "badJson", "urlencoded", "badUrlencoded"}

Requests == [method : Methods, path : Paths, body : Bodies]

\* The inputs of the concurrent specification.
ProbeRequests ==
    {q \in Requests : /\ q.method = "GET" /\ q.body = "none"
                      /\ q.path \in {<< >>, <<"info">>, <<"db-test">>, <<"nope">>}}
ProbeTimes == {1001}
ProbeMemory == {[rss |-> 52428800, heapUsed |-> 10485760]}
ProbeDbStates == {d \in DbStates : d.failAt # "none" => d.thrown.message = "Can't reach database server"}

Idle == [pc |-> "idle"]

NewRequest(q) ==
    [pc |-> "received", method |-> q.method, path |-> q.path, body |-> q.body,
     trace |-> << >>, logLines |-> << >>, responses |-> << >>,
     calls |-> << >>, raised |-> << >>, caught |-> << >>,
     bodyParsed |-> FALSE, userCount |-> None, postCount |-> None]

(***************************************************************************)
(* Helpers of the runtime.                                                 *)
(***************************************************************************)
\* Variant of Falsy: a ?? b, which picks b when a is undefined alone.
FalsyNullish(v) == v = Undefined

\* a || b picks b when a is falsy; of the values here, undefined and "".
Falsy(v) == v = Undefined \/ v = ""

\* JSON.stringify of an object leaves out the properties that are undefined;
\* of the properties sent here, only an error's message can be.
Json(obj) ==
    [f \in {g \in DOMAIN obj : ~(g = "message" /\ obj[g] = Undefined)} |-> obj[f]]

\* Math.round(bytes / 1024 / 1024) with " MB" appended.
MegaBytes(bytes) == <<(2 * bytes + 1048576) \div 2097152, " MB">>

Visit(rq, stage) == [rq EXCEPT !.trace = Append(@, stage)]

Raise(rq, err) == [rq EXCEPT !.raised = Append(@, err)]

\* res.status(status).json(body): the response of the request.  A HEAD
\* request is answered with the headers alone.
Respond(rq, status, body, by) ==
    [rq EXCEPT !.responses =
                   Append(@, [status |-> status,
                              body |-> IF rq.method = "HEAD" THEN NoBody ELSE body,
                              by |-> by]),
               !.pc = "done"]

(***************************************************************************)
(* The fallbacks and the synchronous route handlers.                       *)
(***************************************************************************)
\* app.use((err, req, res, next) => ...): the global error handler.
ErrorHandler(rq, err) ==
    Respond([Visit(rq, "errorHandler") EXCEPT
                 !.caught = Append(@, [by |-> "errorHandler", err |-> err])],
            500,
            Json([error |-> "Internal Server Error", message |-> err.message]),
            "errorHandler")

\* app.use((req, res) => ...): the 404 handler.
NotFound(rq) ==
    Respond(Visit(rq, "notFound"), 404,
            Json([error |-> "Route not found", path |-> rq.path,
                  method |-> rq.method]),
            "notFound")

\* Variant of Health: the handler remembers that it has answered before.
HealthOnce(rq, now) ==
    Respond(Visit(rq, "health"), 200,
            Json([message |-> IF prev.pc = "done" THEN "Ready (cached)" ELSE "Ready",
                  timestamp |-> now,
                  environment |-> IF Falsy(NODE_ENV) THEN "development"
                                                     ELSE NODE_ENV,
                  version |-> "1.0.0"]),
            "health")

\* app.get('/'): the health check.
Health(rq, now) ==
    Respond(Visit(rq, "health"), 200,
            Json([message |-> "Ready", timestamp |-> now,
                  environment |-> IF Falsy(NODE_ENV) THEN "development"
                                                     ELSE NODE_ENV,
                  version |-> "1.0.0"]),
            "health")

\* app.get('/info'): the system information.
Info(rq, now, mem) ==
    Respond(Visit(rq, "info"), 200,
            Json([appName |-> "Backend Development Project API",
                  nodeVersion |-> "process.version",
                  platform |-> "process.platform",
                  uptime |-> now,
                  memoryUsage |-> [rss |-> MegaBytes(mem.rss),
                                   heapUsed |-> MegaBytes(mem.heapUsed)]]),
            "info")

\* The document swaggerJsdoc generates from the annotations of index.ts.
SwaggerSpec ==
    [openapi |-> "3.0.0", version |-> "1.0.0",
     paths |-> {"/", "/info", "/db-test"}]

\* app.use("/api-docs", swaggerUi.serve, swaggerUi.setup(swaggerSpec, ...)):
\* the mount answers every request that reaches it; the page or the asset
\* it sends, and the status it sends it with, are swagger-ui-express's.
SwaggerUi(rq) ==
    Respond(Visit(rq, "swaggerUi"), 200, [html |-> "swagger-ui"], "swaggerUi")

\* app.get("/api-docs.json").
SwaggerJson(rq) ==
    Respond(Visit(rq, "swaggerJson"), 200, SwaggerSpec, "swaggerJson")

(***************************************************************************)
(* The database probe, GET /db-test.                                       *)
(***************************************************************************)
\* What the database answers to a call now.
DbOutcome(op) ==
    IF db.failAt = op
    THEN [ok |-> FALSE, value |-> None, error |-> db.thrown]
    ELSE [ok |-> TRUE,
          value |-> CASE op = "userCount" -> <<db.users>>
                      [] op = "postCount" -> <<db.posts>>
                      [] OTHER -> None,
          error |-> NoError]

\* Variant of Catch: the catch block answers and throws the error on to the
\* global error handler.
CatchAndRethrow(rq, err) ==
    ErrorHandler(
        Respond([rq EXCEPT !.caught = Append(@, [by |-> "dbTest", err |-> err])],
                500,
                Json([error |-> "Database connection failed",
                      message |-> IF err.isError THEN err.message
                                                 ELSE "Unknown error"]),
                "dbTest"),
        err)

\* Variant of Catch: the catch block issues the failed call again.
CatchAndRetry(rq, err) ==
    [rq EXCEPT !.caught = Append(@, [by |-> "dbTest", err |-> err]),
               !.calls = Append(@, [op |-> rq.calls[Len(rq.calls)].op,
                                    state |-> "pending", value |-> None]),
               !.pc = rq.calls[Len(rq.calls)].op]

\* The catch block of the handler.
Catch(rq, err) ==
    Respond([rq EXCEPT !.caught = Append(@, [by |-> "dbTest", err |-> err])],
            500,
            Json([error |-> "Database connection failed",
                  message |-> IF err.isError THEN err.message
                                             ELSE "Unknown error"]),
            "dbTest")

\* The handler calls the client.  The call throws at once (sync, when the
\* database fails it) and the catch block runs in the same turn, or it
\* returns a promise and the handler suspends on it.
Call(rq, op, sync) ==
    LET out == DbOutcome(op) IN
    IF sync /\ ~out.ok
    THEN Catch(Raise([rq EXCEPT !.calls =
                          Append(@, [op |-> op, state |-> "failed",
                                     value |-> None])],
                     out.error),
               out.error)
    ELSE [rq EXCEPT !.calls = Append(@, [op |-> op, state |-> "pending",
                                         value |-> None]),
                    !.pc = op]

\* The pending call completes with out.
Settle(rq, out) ==
    [rq EXCEPT !.calls[Len(rq.calls)] =
                   [op |-> @.op,
                    state |-> IF out.ok THEN "ok" ELSE "failed",
                    value |-> out.value]]

\* app.get('/db-test'), up to its first await.
DbTest(rq, sync) == Call(Visit(rq, "dbTest"), "connect", sync)

\* Variant of UserCount: the binding is one variable of the module, which
\* the requests share.
UserCountShared(r) ==
    LET bound == {s \in DOMAIN reqs :
                     reqs[s].pc # "idle" /\ reqs[s].userCount # None}
    IN reqs[CHOOSE s \in bound : \A t \in bound : s <= t].userCount

\* const userCount: the handler's own binding, read when it answers.
UserCount(r) == reqs[r].userCount

\* Variant of ProbeBody: the two counts change places.
ProbeBodySwapped(userCount, postCount, now) ==
    Json([message |-> "Database connection successful",
          database |-> "Supabase PostgreSQL",
          userCount |-> postCount,
          postCount |-> userCount,
          timestamp |-> now])

\* The body of the handler's 200 response.
ProbeBody(userCount, postCount, now) ==
    Json([message |-> "Database connection successful",
          database |-> "Supabase PostgreSQL",
          userCount |-> userCount,
          postCount |-> postCount,
          timestamp |-> now])

(***************************************************************************)
(* Routing.                                                                *)
(***************************************************************************)
\* The layers of the router after the middlewares, in declaration order.
Routes ==
    << [verb |-> "use", path |-> <<"api-docs">>, handler |-> "swaggerUi"],
       [verb |-> "get", path |-> <<"api-docs.json">>, handler |-> "swaggerJson"],
       [verb |-> "get", path |-> << >>, handler |-> "health"],
       [verb |-> "get", path |-> <<"info">>, handler |-> "info"],
       [verb |-> "get", path |-> <<"db-test">>, handler |-> "dbTest"],
       [verb |-> "use", path |-> << >>, handler |-> "notFound"] >>

\* Routing is case-insensitive.
Lower(seg) == IF seg = "INFO" THEN "info" ELSE seg

LowerPath(path) == [i \in 1..Len(path) |-> Lower(path[i])]

\* Routing is not strict: one trailing slash is optional.
StripSlash(path) ==
    IF Len(path) > 0 /\ path[Len(path)] = ""
    THEN SubSeq(path, 1, Len(path) - 1)
    ELSE path

\* Variant of Matches: the documentation is mounted without its path.
MatchesUnmounted(route, rq) ==
    IF route.verb = "use"
    THEN TRUE
    ELSE /\ rq.method \in {"GET", "HEAD"}
         /\ StripSlash(LowerPath(rq.path)) = route.path

\* app.use(path, ...) matches every method and every path below path;
\* app.get(path, ...) matches GET, and HEAD for want of a HEAD handler, on
\* path itself.
Matches(route, rq) ==
    LET p == LowerPath(rq.path) IN
    IF route.verb = "use"
    THEN /\ Len(route.path) <= Len(p)
         /\ SubSeq(p, 1, Len(route.path)) = route.path
    ELSE /\ rq.method \in {"GET", "HEAD"}
         /\ StripSlash(p) = route.path

\* Variant of FirstMatch: the router runs the last layer that matches.
LastMatch(rq) ==
    CHOOSE i \in 1..Len(Routes) :
        /\ Matches(Routes[i], rq)
        /\ \A j \in (i + 1)..Len(Routes) : ~Matches(Routes[j], rq)

\* The router runs the first layer that matches.
FirstMatch(rq) ==
    CHOOSE i \in 1..Len(Routes) :
        /\ Matches(Routes[i], rq)
        /\ \A j \in 1..(i - 1) : ~Matches(Routes[j], rq)

Dispatch(rq, now, mem, sync) ==
    LET h == Routes[FirstMatch(rq)].handler IN
    CASE h = "swaggerUi" -> SwaggerUi(rq)
      [] h = "swaggerJson" -> SwaggerJson(rq)
      [] h = "health" -> Health(rq, now)
      [] h = "info" -> Info(rq, now, mem)
      [] h = "dbTest" -> DbTest(rq, sync)
      [] OTHER -> NotFound(rq)

(***************************************************************************)
(* The middlewares, last to first: each ends by calling the next.          *)
(***************************************************************************)
\* Variant of Logger: the middleware calls next() and logs nothing.
LoggerSilent(rq, now, mem, sync) ==
    Dispatch(Visit(rq, "logger"), now, mem, sync)

\* The request logger.
Logger(rq, now, mem, sync) ==
    Dispatch([Visit(rq, "logger") EXCEPT
                  !.logLines = Append(@, [timestamp |-> now,
                                          method |-> rq.method,
                                          path |-> rq.path])],
             now, mem, sync)

\* express.urlencoded({ extended: true }): reads a urlencoded body no
\* parser has parsed yet, and suspends on the read.
UrlencodedParser(rq, now, mem, sync) ==
    LET v == Visit(rq, "urlencoded") IN
    IF ~rq.bodyParsed /\ rq.body \in {"urlencoded", "badUrlencoded"}
    THEN [v EXCEPT !.pc = "body"]
    ELSE Logger(v, now, mem, sync)

\* express.json(): reads a JSON body, and suspends on the read.
JsonParser(rq, now, mem, sync) ==
    LET v == Visit(rq, "json") IN
    IF rq.body \in {"json", "badJson"}
    THEN [v EXCEPT !.pc = "body"]
    ELSE UrlencodedParser(v, now, mem, sync)

\* cors(): answers an OPTIONS request itself, with 204 and no body.
Cors(rq, now, mem, sync) ==
    LET v == Visit(rq, "cors") IN
    IF rq.method = "OPTIONS"
    THEN Respond(v, 204, NoBody, "cors")
    ELSE JsonParser(v, now, mem, sync)

\* The error a body parser passes to next(err).
ParseError(rq) ==
    [isError |-> TRUE,
     message |-> IF rq.body = "badJson" THEN "Unexpected token in JSON"
                                        ELSE "too many parameters"]

(***************************************************************************)
(* Actions: one per event-loop turn.                                       *)
(***************************************************************************)
AllIdleBut(r) == \A s \in DOMAIN reqs \ {r} : reqs[s].pc = "idle"

\* A request arrives on connection r.
Receive(r, q, now, mem, sync) ==
    /\ reqs[r].pc = "idle"
    /\ reqs' = [reqs EXCEPT ![r] = Cors(NewRequest(q), now, mem, sync)]
    /\ UNCHANGED <<NODE_ENV, db, prev, dbStable>>

\* The body has been read: the parser that read it parses it.
BodyRead(r, now, mem, sync) ==
    /\ reqs[r].pc = "body"
    /\ LET rq == reqs[r]
           parser == rq.trace[Len(rq.trace)]
           parsed == [rq EXCEPT !.bodyParsed = TRUE, !.pc = "received"]
       IN reqs' = [reqs EXCEPT ![r] =
              IF rq.body \in {"badJson", "badUrlencoded"}
              THEN ErrorHandler(Raise(rq, ParseError(rq)), ParseError(rq))
              ELSE IF parser = "json"
                   THEN UrlencodedParser(parsed, now, mem, sync)
                   ELSE Logger(parsed, now, mem, sync)]
    /\ UNCHANGED <<NODE_ENV, db, prev, dbStable>>

\* await prisma.$connect() completes.
ConnectDone(r, sync) ==
    /\ reqs[r].pc = "connect"
    /\ LET out == DbOutcome("connect")
           rq == Settle(reqs[r], out)
       IN reqs' = [reqs EXCEPT ![r] =
              IF out.ok THEN Call(rq, "userCount", sync)
                        ELSE Catch(Raise(rq, out.error), out.error)]
    /\ UNCHANGED <<NODE_ENV, db, prev, dbStable>>

\* await prisma.user.count() completes.
UserCountDone(r, sync) ==
    /\ reqs[r].pc = "userCount"
    /\ LET out == DbOutcome("userCount")
           rq == Settle(reqs[r], out)
       IN reqs' = [reqs EXCEPT ![r] =
              IF out.ok
              THEN Call([rq EXCEPT !.userCount = out.value], "postCount", sync)
              ELSE Catch(Raise(rq, out.error), out.error)]
    /\ UNCHANGED <<NODE_ENV, db, prev, dbStable>>

\* await prisma.post.count() completes, and the handler answers.
PostCountDone(r, now) ==
    /\ reqs[r].pc = "postCount"
    /\ LET out == DbOutcome("postCount")
           rq == Settle(reqs[r], out)
       IN reqs' = [reqs EXCEPT ![r] =
              IF out.ok
              THEN Respond([rq EXCEPT !.postCount = out.value], 200,
                           ProbeBody(UserCount(r)[1], out.value[1], now),
                           "dbTest")
              ELSE Catch(Raise(rq, out.error), out.error)]
    /\ UNCHANGED <<NODE_ENV, db, prev, dbStable>>

\* The response has been delivered: the connection is free again.
Close(r) ==
    /\ reqs[r].pc = "done"
    /\ reqs' = [reqs EXCEPT ![r] = Idle]
    /\ prev' = Idle
    /\ dbStable' = (AllIdleBut(r) \/ dbStable)
    /\ UNCHANGED <<NODE_ENV, db>>

\* The client of connection r sends its GET request again.  The exchange
\* just finished is kept beside the new one when the database has not
\* changed under it.
Repeat(r, now, mem, sync) ==
    /\ reqs[r].pc = "done"
    /\ reqs[r].method = "GET"
    /\ AllIdleBut(r)
    /\ prev' = IF dbStable THEN reqs[r] ELSE Idle
    /\ reqs' = [reqs EXCEPT ![r] =
           Cors(NewRequest([method |-> reqs[r].method, path |-> reqs[r].path,
                            body |-> reqs[r].body]),
                now, mem, sync)]
    /\ dbStable' = TRUE
    /\ UNCHANGED <<NODE_ENV, db>>

\* The database changes under a request that is waiting for it: rows come
\* and go, it fails, it recovers.
DbChange(d) ==
    /\ d # db
    /\ \E s \in DOMAIN reqs : reqs[s].pc \in {"connect", "userCount", "postCount"}
    /\ db' = d
    /\ prev' = Idle
    /\ dbStable' = FALSE
    /\ UNCHANGED <<NODE_ENV, reqs>>

(***************************************************************************)
(* Specifications.  Spec holds one connection, draws its requests from     *)
(* every request and lets the client repeat a GET.  SpecConcurrent holds   *)
(* MaxInFlight connections open, for the interleavings of their turns, and *)
(* draws GET requests without a body, one clock reading, one memory        *)
(* reading and one thrown value.                                           *)
(***************************************************************************)
Init ==
    /\ NODE_ENV \in EnvValues
    /\ db \in DbStates
    /\ reqs = [r \in {1} |-> Idle]
    /\ prev = Idle
    /\ dbStable = TRUE

InitConcurrent ==
    /\ NODE_ENV \in {Undefined}
    /\ db \in ProbeDbStates
    /\ reqs = [r \in 1..MaxInFlight |-> Idle]
    /\ prev = Idle
    /\ dbStable = TRUE

Next ==
    \/ \E r \in DOMAIN reqs, q \in Requests, now \in Times,
           mem \in MemorySamples, sync \in BOOLEAN :
           Receive(r, q, now, mem, sync)
    \/ \E r \in DOMAIN reqs, now \in Times, mem \in MemorySamples,
           sync \in BOOLEAN :
           BodyRead(r, now, mem, sync)
    \/ \E r \in DOMAIN reqs, sync \in BOOLEAN : ConnectDone(r, sync)
    \/ \E r \in DOMAIN reqs, sync \in BOOLEAN : UserCountDone(r, sync)
    \/ \E r \in DOMAIN reqs, now \in Times : PostCountDone(r, now)
    \/ \E r \in DOMAIN reqs : Close(r)
    \/ \E r \in DOMAIN reqs, now \in Times, mem \in MemorySamples,
           sync \in BOOLEAN :
           Repeat(r, now, mem, sync)
    \/ \E d \in DbStates : DbChange(d)

NextConcurrent ==
    \/ \E r \in DOMAIN reqs, q \in ProbeRequests, now \in ProbeTimes,
           mem \in ProbeMemory, sync \in BOOLEAN :
           Receive(r, q, now, mem, sync)
    \/ \E r \in DOMAIN reqs, sync \in BOOLEAN : ConnectDone(r, sync)
    \/ \E r \in DOMAIN reqs, sync \in BOOLEAN : UserCountDone(r, sync)
    \/ \E r \in DOMAIN reqs, now \in ProbeTimes : PostCountDone(r, now)
    \/ \E r \in DOMAIN reqs : Close(r)
    \/ \E d \in ProbeDbStates : DbChange(d)

Spec == Init /\ [][Next]_vars

SpecConcurrent == InitConcurrent /\ [][NextConcurrent]_vars

(***************************************************************************)
(* Vocabulary of the properties.                                           *)
(***************************************************************************)
Held == {r \in DOMAIN reqs : reqs[r].pc # "idle"}

Answered == {r \in DOMAIN reqs : reqs[r].pc = "done"}

Response(r) == reqs[r].responses[1]

Range(seq) == {seq[i] : i \in 1..Len(seq)}

IsPrefix(a, b) == Len(a) <= Len(b) /\ SubSeq(b, 1, Len(a)) = a

Malformed(rq) == rq.body \in {"badJson", "badUrlencoded"}

\* A path as the router compares it.
Canon(path) == StripSlash(LowerPath(path))

\* The request is below the documentation mount.
UnderApiDocs(rq) == Len(rq.path) > 0 /\ Canon(rq.path)[1] = "api-docs"

\* The request is for one of the four app.get routes.
OnGetRoute(rq) ==
    /\ rq.method \in {"GET", "HEAD"}
    /\ Canon(rq.path) \in {<< >>, <<"info">>, <<"db-test">>, <<"api-docs.json">>}

NotFoundBody(rq) ==
    [error |-> "Route not found", path |-> rq.path, method |-> rq.method]

\* The (method, path) pairs the interface declares.
DeclaredRoutes ==
    { <<"GET", << >>>>, <<"GET", <<"info">>>>, <<"GET", <<"db-test">>>>,
      <<"GET", <<"api-docs">>>>, <<"GET", <<"api-docs.json">>>> }

\* The fields left out when two responses are compared.
Strip(body, fields) == [f \in DOMAIN body \ fields |-> body[f]]

ProbeOps == <<"connect", "userCount", "postCount">>

\* The request went through the GET /db-test handler.
Probed(rq) == "dbTest" \in Range(rq.trace)

AllOk(rq) ==
    /\ Len(rq.calls) = 3
    /\ \A i \in 1..3 : rq.calls[i].state = "ok"

Environment == IF NODE_ENV \in {Undefined, ""} THEN "development" ELSE NODE_ENV

(***************************************************************************)
(* C1.                                                                     *)
(***************************************************************************)
\* C1, as claimed: every answered request whose (method, path) pair is not a
\* declared route has status 404 and the body {error: "Route not found",
\* path, method} of its own path and method.
C1_AsClaimed ==
    \A r \in Answered :
        <<reqs[r].method, reqs[r].path>> \notin DeclaredRoutes
        => /\ Response(r).status = 404
           /\ Response(r).body = NotFoundBody(reqs[r])

\* C1, amended: a request that is not OPTIONS, whose body the parsers
\* accept, that is not at or below /api-docs and is not a GET or HEAD of
\* /, /info, /db-test or /api-docs.json (compared without case and without
\* a trailing slash), is answered once, with status 404 and with the body
\* {error: "Route not found", path, method} of its own path and method,
\* and with no body when it is a HEAD request.
C1_UnroutedIsNotFound ==
    \A r \in Answered :
        LET rq == reqs[r] IN
        (/\ rq.method # "OPTIONS"
         /\ ~Malformed(rq)
         /\ ~UnderApiDocs(rq)
         /\ ~OnGetRoute(rq))
        => /\ Len(rq.responses) = 1
           /\ Response(r).status = 404
           /\ Response(r).body =
                  IF rq.method = "HEAD" THEN NoBody ELSE NotFoundBody(rq)

\* A POST of /info, with a body the parser accepts, answered 404.
C1_Witness ==
    \E r \in Answered :
        /\ reqs[r].method = "POST"
        /\ reqs[r].path = <<"info">>
        /\ reqs[r].body = "json"
        /\ Response(r).status = 404
        /\ Response(r).body.method = "POST"

C3_AsClaimed ==
    \A r \in Answered :
        LET rq == reqs[r]
            body == Response(r).body
        IN (Probed(rq) /\ rq.method = "GET" /\ rq.raised # << >>)
           => /\ Response(r).status = 500
              /\ "error" \in DOMAIN body
              /\ body.error = "Database connection failed"
              /\ "message" \in DOMAIN body
              /\ body.message # ""

(***************************************************************************)
(* C4.                                                                     *)
(***************************************************************************)
\* C4, as claimed: an exception raised by a route handler, at once or after
\* the handler suspended, is caught once and gives one response, with
\* status 500 and a body {error, message} whose message is the exception's.
C4_AsClaimed ==
    \A r \in Held :
        LET rq == reqs[r] IN
        (Probed(rq) /\ rq.raised # << >>)
        => /\ rq.pc = "done"
           /\ Len(rq.caught) = 1
           /\ Len(rq.responses) = 1
           /\ Response(r).status = 500
           /\ rq.method = "GET" =>
                 /\ DOMAIN Response(r).body = {"error", "message"}
                 /\ Response(r).body.message = rq.raised[1].message

\* C4, amended: an exception raised in the one route handler that calls out,
\* GET /db-test, at once or after the handler suspended, is caught once, in
\* the turn that raises it, and gives one response, with status 500 and a
\* body {error, message} whose error is "Database connection failed" and
\* whose message is the exception's when the exception is an Error and
\* "Unknown error" when it is not.
C4_CaughtOnce ==
    \A r \in Held :
        LET rq == reqs[r] IN
        (Probed(rq) /\ rq.raised # << >>)
        => /\ rq.pc = "done"
           /\ Len(rq.raised) = 1
           /\ Len(rq.caught) = 1
           /\ rq.caught[1].err = rq.raised[1]
           /\ Len(rq.responses) = 1
           /\ Response(r).status = 500
           /\ rq.method = "GET" =>
                 /\ DOMAIN Response(r).body = {"error", "message"}
                 /\ Response(r).body.error = "Database connection failed"
                 /\ Response(r).body.message =
                        IF rq.raised[1].isError THEN rq.raised[1].message
                                                ELSE "Unknown error"

\* A count rejected, after the handler suspended, with a value that is no
\* Error, and answered "Unknown error".
C4_Witness ==
    \E r \in Answered :
        /\ Probed(reqs[r]) /\ reqs[r].method = "GET"
        /\ Len(reqs[r].calls) = 3
        /\ reqs[r].raised # << >>
        /\ ~reqs[r].raised[1].isError
        /\ Response(r).body.message = "Unknown error"

(***************************************************************************)
(* C5.                                                                     *)
(***************************************************************************)
\* C5, as claimed: every GET / request, whatever its body, is answered with
\* status 200 and an environment that is NODE_ENV, or "development" when
\* NODE_ENV is unset.
C5_AsClaimed ==
    \A r \in Answered :
        (reqs[r].method = "GET" /\ reqs[r].path = << >>)
        => /\ Response(r).status = 200
           /\ "environment" \in DOMAIN Response(r).body
           /\ Response(r).body.environment =
                  IF NODE_ENV = Undefined THEN "development" ELSE NODE_ENV

\* C5, amended: a GET / request whose body the parsers accept is answered
\* with status 200 and the health response, whose environment is NODE_ENV,
\* or "development" when NODE_ENV is unset or empty; one whose body a parser
\* rejects is answered 500 by the global error handler.
C5_Health ==
    \A r \in Answered :
        LET rq == reqs[r]
            body == Response(r).body
        IN (rq.method = "GET" /\ rq.path = << >>)
           => IF Malformed(rq)
              THEN /\ Response(r).status = 500
                   /\ Response(r).by = "errorHandler"
              ELSE /\ Len(rq.responses) = 1
                   /\ Response(r).status = 200
                   /\ DOMAIN body = {"message", "timestamp", "environment", "version"}
                   /\ body.message = "Ready"
                   /\ body.timestamp \in Times
                   /\ body.environment = Environment

\* A GET / with a urlencoded body, answered 200 while NODE_ENV is empty.
C5_Witness ==
    \E r \in Answered :
        /\ reqs[r].method = "GET" /\ reqs[r].path = << >>
        /\ reqs[r].body = "urlencoded"
        /\ NODE_ENV = ""
        /\ Response(r).status = 200
        /\ Response(r).body.environment = "development"

(***************************************************************************)
(* C6.                                                                     *)
(***************************************************************************)
MiddlewareChain == <<"cors", "json", "urlencoded", "logger">>

\* The middlewares a request has run, in the order it ran them.
MiddlewaresRun(rq) ==
    SelectSeq(rq.trace, LAMBDA stage : stage \in Range(MiddlewareChain))

\* C6, as claimed: the middlewares run in the order CORS, body parsing,
\* logging, and every answered request has exactly one log line, of its
\* method and path.
C6_AsClaimed ==
    \A r \in Answered :
        /\ IsPrefix(MiddlewaresRun(reqs[r]), MiddlewareChain)
        /\ Len(reqs[r].logLines) = 1
        /\ reqs[r].logLines[1].method = reqs[r].method
        /\ reqs[r].logLines[1].path = reqs[r].path

\* C6, amended: the middlewares run in the order CORS, JSON parsing,
\* urlencoded parsing, logging, each at most once; the logger writes one
\* line (timestamp, method, path) for a request that reaches it and none for
\* a request that does not; of the answered requests, the ones that reach it
\* are those that are not OPTIONS (which the CORS middleware answers) and
\* whose body no parser rejects (which the global error handler answers);
\* every route handler and the not-found handler run after the logger.
C6_LoggedWhenReached ==
    \A r \in Held :
        LET rq == reqs[r]
            logged == "logger" \in Range(rq.trace)
        IN /\ IsPrefix(MiddlewaresRun(rq), MiddlewareChain)
           /\ rq.trace[1] = "cors"
           /\ Len(rq.logLines) = IF logged THEN 1 ELSE 0
           /\ logged =>
                 /\ rq.logLines[1].timestamp \in Times
                 /\ rq.logLines[1].method = rq.method
                 /\ rq.logLines[1].path = rq.path
           /\ r \in Answered =>
                 /\ logged <=> (rq.method # "OPTIONS" /\ ~Malformed(rq))
                 /\ Response(r).by \notin {"cors", "errorHandler"}
                    => MiddlewaresRun(rq) = MiddlewareChain
                 /\ Response(r).by = "cors" => rq.trace = <<"cors">>

\* A POST with a urlencoded body answered by the not-found handler, with its
\* one log line.
C6_Witness ==
    \E r \in Answered :
        /\ reqs[r].body = "urlencoded"
        /\ Response(r).by = "notFound"
        /\ reqs[r].trace = <<"cors", "json", "urlencoded", "logger", "notFound">>
        /\ Len(reqs[r].logLines) = 1

(***************************************************************************)
(* C9.                                                                     *)
(***************************************************************************)
\* The route whose method and exact path are the request's, else the
\* not-found handler.
ExactResponder(rq) ==
    CASE rq.method = "GET" /\ rq.path = << >> -> "health"
      [] rq.method = "GET" /\ rq.path = <<"info">> -> "info"
      [] rq.method = "GET" /\ rq.path = <<"db-test">> -> "dbTest"
      [] rq.method = "GET" /\ rq.path = <<"api-docs">> -> "swaggerUi"
      [] rq.method = "GET" /\ rq.path = <<"api-docs.json">> -> "swaggerJson"
      [] OTHER -> "notFound"

\* The responder of a request, by what the request is.
Responder(rq) ==
    CASE rq.method = "OPTIONS" -> "cors"
      [] rq.method # "OPTIONS" /\ Malformed(rq) -> "errorHandler"
      [] OTHER ->
           IF UnderApiDocs(rq) THEN "swaggerUi"
           ELSE IF ~OnGetRoute(rq) THEN "notFound"
           ELSE CASE Canon(rq.path) = << >> -> "health"
                  [] Canon(rq.path) = <<"info">> -> "info"
                  [] Canon(rq.path) = <<"db-test">> -> "dbTest"
                  [] OTHER -> "swaggerJson"

\* The turns that resume a suspended request.
Resume(r) ==
    \/ \E now \in Times, mem \in MemorySamples, sync \in BOOLEAN :
           BodyRead(r, now, mem, sync)
    \/ \E sync \in BOOLEAN : ConnectDone(r, sync)
    \/ \E sync \in BOOLEAN : UserCountDone(r, sync)
    \/ \E now \in Times : PostCountDone(r, now)

\* C9, as claimed: every answered request has exactly one response, from
\* the route whose method and exact path match, else from the not-found
\* handler, or from the error handler when an earlier stage failed; the
\* status is 200, 404 or 500, 404 from the not-found handler alone and 500
\* on a failure alone.
C9_AsClaimed ==
    \A r \in Answered :
        LET rq == reqs[r] IN
        /\ Len(rq.responses) = 1
        /\ Response(r).status \in {200, 404, 500}
        /\ Response(r).status = 404 => Response(r).by = "notFound"
        /\ Response(r).status = 500 => rq.raised # << >>
        /\ Response(r).by = "errorHandler" => rq.raised # << >>
        /\ Response(r).by # "errorHandler" => Response(r).by = ExactResponder(rq)

\* C9, amended: a held request has no response while it is suspended, and
\* then a turn that resumes it is enabled; once answered it has exactly one
\* response, from one responder: the CORS middleware for OPTIONS, else the
\* error handler when a parser rejects the body, else the first declared
\* route that matches (the documentation mount for every method at or below
\* /api-docs; a GET route for GET or HEAD of its path, without case and
\* without a trailing slash), else the not-found handler.  The statuses of
\* the documentation mount aside, the status is 204 from the CORS
\* middleware, 404 from the not-found handler and from nothing else, 500
\* only after a failure, and 200 otherwise.
C9_OneResponder ==
    \A r \in Held :
        LET rq == reqs[r] IN
        IF r \notin Answered
        THEN /\ rq.responses = << >>
             /\ ENABLED Resume(r)
        ELSE /\ Len(rq.responses) = 1
             /\ ~ENABLED Resume(r)
             /\ Response(r).by = Responder(rq)
             /\ Response(r).by # "swaggerUi" =>
                    /\ Response(r).status \in {200, 204, 404, 500}
                    /\ Response(r).status = 204 <=> Response(r).by = "cors"
                    /\ Response(r).status = 404 <=> Response(r).by = "notFound"
                    /\ Response(r).status = 500 => rq.raised # << >>
             /\ Response(r).by = "errorHandler" =>
                    /\ rq.raised # << >>
                    /\ Response(r).status = 500

\* A HEAD of /INFO answered by the /info route, and nothing left to run.
C9_Witness ==
    \E r \in Answered :
        /\ reqs[r].method = "HEAD"
        /\ reqs[r].path = <<"INFO">>
        /\ reqs[r].body = "json"
        /\ Response(r).by = "info"
        /\ Response(r).status = 200
        /\ Len(reqs[r].responses) = 1

(***************************************************************************)
(* C10.                                                                    *)
(***************************************************************************)
\* C10: a request makes database calls only in the /db-test handler, and
\* there in the order connect, user count, post count, each at most once
\* and each after the one before it succeeded; the handler is suspended
\* exactly while its last call is pending and has not answered then; after
\* a failure it makes no further call, and the failure is answered by the
\* handler's own 500 response, error "Database connection failed", never by
\* the global error handler; a 200 is sent after all three succeeded.
C10_ProbeOrder ==
    \A r \in Held :
        LET rq == reqs[r]
            n == Len(rq.calls)
        IN IF ~Probed(rq)
           THEN n = 0
           ELSE /\ n \in 1..3
                /\ \A i \in 1..n : rq.calls[i].op = ProbeOps[i]
                /\ \A i \in 1..(n - 1) : rq.calls[i].state = "ok"
                /\ rq.calls[n].state = "pending" <=> rq.pc = rq.calls[n].op
                /\ rq.calls[n].state = "pending" <=> r \notin Answered
                /\ rq.calls[n].state = "pending" => rq.responses = << >>
                /\ r \in Answered =>
                      /\ Len(rq.responses) = 1
                      /\ Response(r).by = "dbTest"
                      /\ "errorHandler" \notin Range(rq.trace)
                      /\ rq.calls[n].state = "ok" =>
                            n = 3 /\ Response(r).status = 200
                      /\ rq.calls[n].state = "failed" =>
                            /\ Response(r).status = 500
                            /\ rq.method = "GET" =>
                                  Response(r).body.error = "Database connection failed"

\* The user count failed after connect succeeded: two calls, and the
\* handler's own 500.
C10_Witness ==
    \E r \in Answered :
        /\ Probed(reqs[r]) /\ reqs[r].method = "GET"
        /\ Len(reqs[r].calls) = 2
        /\ reqs[r].calls[1].state = "ok"
        /\ reqs[r].calls[2].state = "failed"
        /\ Response(r).status = 500
        /\ Response(r).by = "dbTest"

(***************************************************************************)
(* C7, under SpecConcurrent.                                               *)
(***************************************************************************)
\* What a request receives when it is handled alone and the database
\* answers its calls as rq.calls and rq.raised record, timestamps aside.
AloneStatus(rq) ==
    CASE Responder(rq) = "notFound" -> 404
      [] Responder(rq) = "dbTest" /\ ~AllOk(rq) -> 500
      [] OTHER -> 200

AloneBodies(rq) ==
    CASE Responder(rq) = "health" ->
           {[message |-> "Ready", environment |-> Environment, version |-> "1.0.0"]}
      [] Responder(rq) = "info" ->
           {[appName |-> "Backend Development Project API",
             nodeVersion |-> "process.version",
             platform |-> "process.platform",
             memoryUsage |-> [rss |-> MegaBytes(m.rss),
                              heapUsed |-> MegaBytes(m.heapUsed)]] :
            m \in MemorySamples}
      [] Responder(rq) = "dbTest" /\ AllOk(rq) ->
           {[message |-> "Database connection successful",
             database |-> "Supabase PostgreSQL",
             userCount |-> rq.calls[2].value[1],
             postCount |-> rq.calls[3].value[1]]}
      [] Responder(rq) = "dbTest" /\ ~AllOk(rq) ->
           {[error |-> "Database connection failed",
             message |-> IF rq.raised[1].isError THEN rq.raised[1].message
                                                 ELSE "Unknown error"]}
      [] OTHER -> {NotFoundBody(rq)}

\* The server accepts a request on connection s.
Accept(s) ==
    \E q \in ProbeRequests, now \in ProbeTimes, mem \in ProbeMemory,
       sync \in BOOLEAN :
        Receive(s, q, now, mem, sync)

\* C7: with several requests held at once, in every interleaving of their
\* turns and of the database's changes, each answered request has one
\* response, whose status and body (timestamp and uptime aside) are those
\* it receives alone against the outcomes of its own database calls; and a
\* free connection accepts a request whatever the others wait for.
C7_AsIfAlone ==
    /\ \A r \in Answered :
           /\ Len(reqs[r].responses) = 1
           /\ Response(r).status = AloneStatus(reqs[r])
           /\ Strip(Response(r).body, {"timestamp", "uptime"}) \in AloneBodies(reqs[r])
    /\ \A s \in DOMAIN reqs \ Held : ENABLED Accept(s)

\* A probe suspended on its post count, having read one user count, beside
\* an answered probe that read another.
C7_Witness ==
    \E r, s \in DOMAIN reqs :
        /\ reqs[r].pc = "postCount"
        /\ s \in Answered
        /\ Probed(reqs[s])
        /\ Response(s).status = 200
        /\ Response(s).body.userCount # reqs[r].userCount[1]

(***************************************************************************)
(* C8.                                                                     *)
(***************************************************************************)
\* C8, as claimed: a GET request repeated with the environment and the
\* database unchanged gets the same status and the same body, timestamp and
\* uptime aside.
C8_AsClaimed ==
    (prev.pc = "done" /\ dbStable /\ 1 \in Answered)
    => /\ Response(1).status = prev.responses[1].status
       /\ Strip(Response(1).body, {"timestamp", "uptime"})
              = Strip(prev.responses[1].body, {"timestamp", "uptime"})

\* C8, amended: a GET request repeated with the environment and the
\* database unchanged gets the same status and the same body, timestamp,
\* uptime and memoryUsage aside.
C8_Idempotent ==
    (prev.pc = "done" /\ dbStable /\ 1 \in Answered)
    => /\ reqs[1].method = prev.method /\ reqs[1].path = prev.path
       /\ reqs[1].body = prev.body
       /\ Response(1).status = prev.responses[1].status
       /\ Strip(Response(1).body, {"timestamp", "uptime", "memoryUsage"})
              = Strip(prev.responses[1].body, {"timestamp", "uptime", "memoryUsage"})

\* GET /db-test answered 200 twice in a row, at two different times.
C8_Witness ==
    /\ prev.pc = "done" /\ dbStable /\ 1 \in Answered
    /\ Probed(reqs[1])
    /\ Response(1).status = 200
    /\ Response(1).body.timestamp # prev.responses[1].body.timestamp

====
